---- MODULE Spec2Model ----
(***************************************************************************)
(* Model of src/app.py: the Inkroast Shopify snapshot app.  One click on   *)
(* the "Generate My Report" button runs scrape_shopify_store, then         *)
(* analyze_store_json, then the report preview and create_word_doc.        *)
(*                                                                         *)
(* Text is a sequence of tokens.  A token is one character ("j", "{",      *)
(* " ", "7", ...) or an atom standing for a run of characters that holds   *)
(* no backtick, quote, whitespace or JSON punctuation ("executive_summary",*)
(* "https://", ...).  Python values are tagged records: [t |-> "None"],    *)
(* [t |-> "str", v |-> text], [t |-> "int", v |-> n], [t |-> "dict", ...]. *)
(* The page's visible text is represented by its length only.              *)
(***************************************************************************)
EXTENDS Integers, Sequences, FiniteSets, TLC

VARIABLES
    pc,          \* where the button handler stands
    url_input,   \* the text of the "Store URL" field
    requested,   \* the URLs handed to requests.get in this run
    response,    \* what requests.get did
    data, error, \* what scrape_shopify_store returned
    soupBuilt,   \* whether the response body was parsed
    prompts,     \* the prompts sent to the model in this run
    raw,         \* what the model did
    clean_json,  \* the response text after fence stripping
    audit,       \* what analyze_store_json returned
    display,     \* the blocks on the page
    doc,         \* the generated document
    log,         \* the stages this run went through
    outcome      \* how the run ended

vars == <<pc, url_input, requested, response, data, error, soupBuilt, prompts,
          raw, clean_json, audit, display, doc, log, outcome>>

--------------------------------------------------------------------------
(* Bounds of the model *)

\* how far past each character cap the page's visible text may run
MaxOver == 1
\* the largest number of <h1> (and of <h2>) elements on a page
MaxHeadings == 7

--------------------------------------------------------------------------
(* Python values *)

None == [t |-> "None"]
PyStr(s) == [t |-> "str", v |-> s]
PyInt(n) == [t |-> "int", v |-> n]
PyFloat(whole, frac) == [t |-> "float", v |-> <<whole, frac>>]
PyList(items) == [t |-> "list", v |-> items]
\* a dict is a function from its keys (texts) to its values
PyDict(f) == [t |-> "dict", v |-> f]
EmptyDict == PyDict(<<>>)

Min(a, b) == IF a <= b THEN a ELSE b

--------------------------------------------------------------------------
(* str methods *)

Whitespace == {" ", "\n", "\t"}

RECURSIVE lstripFrom(_, _)
lstripFrom(s, i) ==
    IF i <= Len(s) /\ s[i] \in Whitespace THEN lstripFrom(s, i + 1) ELSE i

RECURSIVE rstripFrom(_, _)
rstripFrom(s, j) ==
    IF j >= 1 /\ s[j] \in Whitespace THEN rstripFrom(s, j - 1) ELSE j

\* str.strip(): drops leading and trailing whitespace
strip(s) == SubSeq(s, lstripFrom(s, 1), rstripFrom(s, Len(s)))

\* whether old occurs in s at position i
occursAt(s, i, old) ==
    /\ i + Len(old) - 1 <= Len(s)
    /\ \A k \in 1..Len(old) : s[i + k - 1] = old[k]

startswith(s, prefix) == occursAt(s, 1, prefix)

\* the part of s from i on, with every non-overlapping occurrence of old, taken
\* left to right, replaced by new
RECURSIVE replaceFrom(_, _, _, _)
replaceFrom(s, i, old, new) ==
    LET found == { p \in i..(Len(s) - Len(old) + 1) : occursAt(s, p, old) }
    IN  IF found = {} THEN SubSeq(s, i, Len(s))
        ELSE LET p == CHOOSE x \in found : \A y \in found : x <= y
             IN  SubSeq(s, i, p - 1) \o new \o replaceFrom(s, p + Len(old), old, new)

\* str.replace(old, new): every non-overlapping occurrence, left to right
replace(s, old, new) == replaceFrom(s, 1, old, new)

\* the "in" operator on two str values
contains(s, sub) == \E i \in 1..(Len(s) + 1) : occursAt(s, i, sub)

Upper == <<"A", "B", "C", "D", "E", "F", "G", "H", "I", "J", "K", "L", "M",
           "N", "O", "P", "Q", "R", "S", "T", "U", "V", "W", "X", "Y", "Z">>
Lower == <<"a", "b", "c", "d", "e", "f", "g", "h", "i", "j", "k", "l", "m",
           "n", "o", "p", "q", "r", "s", "t", "u", "v", "w", "x", "y", "z">>

lowerChar(c) ==
    IF \E k \in 1..26 : Upper[k] = c
    THEN Lower[CHOOSE k \in 1..26 : Upper[k] = c]
    ELSE c

\* str.lower()
lower(s) == [i \in 1..Len(s) |-> lowerChar(s[i])]

Digits == <<"0", "1", "2", "3", "4", "5", "6", "7", "8", "9">>
IsDigit(c) == \E k \in 1..10 : Digits[k] = c
DigitVal(c) == (CHOOSE k \in 1..10 : Digits[k] = c) - 1

RECURSIVE intToText(_)
intToText(n) ==
    IF n < 0 THEN <<"-">> \o intToText(0 - n)
    ELSE IF n < 10 THEN <<Digits[n + 1]>>
    ELSE intToText(n \div 10) \o <<Digits[(n % 10) + 1]>>

RECURSIVE joinTexts(_, _)
joinTexts(parts, sep) ==
    IF parts = <<>> THEN <<>>
    ELSE IF Len(parts) = 1 THEN parts[1]
    ELSE parts[1] \o sep \o joinTexts(Tail(parts), sep)

\* str(v) / f"{v}" of a Python value
RECURSIVE format(_)
format(v) ==
    CASE v.t = "None" -> <<"None">>
      [] v.t = "str" -> v.v
      [] v.t = "int" -> intToText(v.v)
      [] v.t = "float" -> intToText(v.v[1]) \o <<".">> \o v.v[2]
      [] v.t = "list" ->
           <<"[">> \o joinTexts([i \in 1..Len(v.v) |->
                        IF v.v[i].t = "str"
                        THEN <<"'">> \o v.v[i].v \o <<"'">>
                        ELSE format(v.v[i])], <<",", " ">>) \o <<"]">>
      [] OTHER -> <<"{...}">>

--------------------------------------------------------------------------
(* Program constants *)

\* the only status code scrape_shopify_store accepts
StatusOk == 200
\* body = soup.get_text(...)[:5000]
BodyCap == 5000
\* data['body'][:3500] in the prompt
PromptBodyCap == 3500
\* h2_tags[:6]
H2Cap == 6

--------------------------------------------------------------------------
(* The operator's input and the store's answers *)

Http == <<"h", "t", "t", "p">>
SchemeHttp == Http \o <<":", "/", "/">>
SchemeHttps == Http \o <<"s", ":", "/", "/">>

Hosts == { <<"e", "x", "a", "m", "p", "l", "e", ".", "c", "o", "m">>,
           <<"h", "t", "t", "p", "b", "i", "n", ".", "o", "r", "g">> }

\* what the operator may type into the "Store URL" field
UrlInputs ==
    {<<>>} \cup
    { pad \o scheme \o host \o pad :
        pad \in {<<>>, <<" ">>},
        scheme \in {<<>>, SchemeHttp, SchemeHttps},
        host \in Hosts }

\* an input carries a scheme when, trimmed, it begins with http:// or https://
HasScheme(u) ==
    startswith(strip(u), SchemeHttp) \/ startswith(strip(u), SchemeHttps)

\* soup.title / soup.find('meta', ...): None or a Tag
Tag(string, attrs) == [t |-> "Tag", string |-> string, attrs |-> attrs]

\* the text of the i-th heading element, as get_text() gives it
HeadingText(i) == <<" ", Digits[i + 1], "\n">>
Headings(n) == [i \in 1..n |-> HeadingText(i)]

BasePage ==
    [ title |-> Tag(PyStr(<<"Acme", " ", "Coffee">>), <<>>),
      meta |-> Tag(None, [name |-> <<"description">>,
                          content |-> <<"Fresh", " ", "beans">>]),
      h1 |-> Headings(1),
      h2 |-> Headings(2),
      img |-> << Tag(None, <<>>),
                 Tag(None, [alt |-> <<>>]),
                 Tag(None, [alt |-> <<"logo">>]) >>,
      text_len |-> 1 ]

\* lengths of the page's visible text, around the two caps
TextLens ==
    {0} \cup { cap + d : cap \in {PromptBodyCap, BodyCap}, d \in (0 - 1)..MaxOver }

\* the parsed documents a store may answer with (BeautifulSoup's view of them)
Pages ==
    {BasePage}
    \cup { [BasePage EXCEPT !.title = x] :
             x \in { None,                            \* no <title>
                     Tag(None, <<>>) } }              \* <title></title>
    \cup { [BasePage EXCEPT !.meta = x] :
             x \in { None,
                     Tag(None, [name |-> <<"description">>]),
                     Tag(None, [name |-> <<"description">>, content |-> <<>>]) } }
    \cup { [BasePage EXCEPT !.h1 = Headings(n)] : n \in {0, MaxHeadings} }
    \cup { [BasePage EXCEPT !.h2 = Headings(n)] : n \in {0, H2Cap, MaxHeadings} }
    \cup { [BasePage EXCEPT !.text_len = n] : n \in TextLens }

StatusCodes == {StatusOk, 204, 403, 404, 500}

\* what requests.get may do for a URL with a usable scheme
Responses ==
    { [kind |-> "response", status_code |-> StatusOk, soup |-> p] : p \in Pages }
    \cup { [kind |-> "response", status_code |-> c, soup |-> BasePage] :
             c \in StatusCodes \ {StatusOk} }
    \cup { [kind |-> "exception", message |-> <<m>>] :
             m \in {"ReadTimeout", "ConnectionError"} }

\* requests raises before sending anything when the URL names no scheme
MissingSchema == [kind |-> "exception", message |-> <<"MissingSchema">>]

--------------------------------------------------------------------------
(* scrape_shopify_store *)

\* lines 132-134: the URL handed to requests.get
request_url(url) ==
    LET u == strip(url)
    IN  IF ~startswith(u, Http) THEN SchemeHttps \o u ELSE u

\* len(images) and the count of images whose alt is missing or empty
missing_alt(images) ==
    Cardinality({ i \in 1..Len(images) :
                    \/ "alt" \notin DOMAIN images[i].attrs
                    \/ images[i].attrs.alt = <<>> })

image_stats(images) ==
    intToText(missing_alt(images)) \o <<" ", "out of", " ">>
    \o intToText(Len(images))
    \o <<" ", "images are missing description tags (Alt Text).">>

\* the text taken whole, its slice forgotten
slice_len_whole(len, n) == len

\* s[:n] on a text given by its length
slice_len(len, n) == Min(len, n)

\* seq[:n] on a list
slice(seq, n) == SubSeq(seq, 1, Min(Len(seq), n))

\* lines 140-166: the snapshot of a parsed page; meta['content'] raises KeyError
\* when the tag has no content attribute
extract(url, soup) ==
    IF soup.meta.t = "Tag" /\ "content" \notin DOMAIN soup.meta.attrs
    THEN [data |-> None,
          error |-> PyStr(<<"Scraping Error: ", "'content'">>),
          parsed |-> TRUE]
    ELSE [data |->
            [ t |-> "dict",
              url |-> url,
              title |-> IF soup.title.t = "Tag" THEN soup.title.string
                        ELSE PyStr(<<"No Title">>),
              description |-> IF soup.meta.t = "Tag"
                              THEN PyStr(soup.meta.attrs.content)
                              ELSE PyStr(<<"No Meta Description">>),
              h1_tags |-> [i \in 1..Len(soup.h1) |-> strip(soup.h1[i])],
              h2_tags |-> slice([i \in 1..Len(soup.h2) |-> strip(soup.h2[i])], H2Cap),
              image_stats |-> image_stats(soup.img),
              body |-> slice_len(soup.text_len, BodyCap) ],
          error |-> None,
          parsed |-> TRUE]

\* scrape_shopify_store without the status check: any response is parsed
scrape_any_status(url, resp) ==
    IF resp.kind = "exception"
    THEN [data |-> None,
          error |-> PyStr(<<"Scraping Error: ">> \o resp.message),
          parsed |-> FALSE]
    ELSE extract(request_url(url), resp.soup)

\* lines 136-168: what scrape_shopify_store returns, given what requests.get did;
\* parsed: whether BeautifulSoup was handed the body
scrape_shopify_store(url, resp) ==
    IF resp.kind = "exception"
    THEN [data |-> None,
          error |-> PyStr(<<"Scraping Error: ">> \o resp.message),
          parsed |-> FALSE]
    ELSE IF resp.status_code # StatusOk
    THEN [data |-> None,
          error |-> PyStr(<<"Could not load site (Status: ">>
                          \o intToText(resp.status_code) \o <<")">>),
          parsed |-> FALSE]
    ELSE extract(request_url(url), resp.soup)

--------------------------------------------------------------------------
(* json.loads *)

Q == "\""
JsonWs == {" ", "\n", "\t"}

Ok(v, i) == [ok |-> TRUE, val |-> v, pos |-> i, msg |-> <<>>]
Fail(i, m) == [ok |-> FALSE, val |-> None, pos |-> i, msg |-> <<m>>]

RECURSIVE skip_ws(_, _)
skip_ws(s, i) ==
    IF i <= Len(s) /\ s[i] \in JsonWs THEN skip_ws(s, i + 1) ELSE i

\* the index of the quote that closes a string opened before j; 0 when the string
\* does not end, -1 when it holds a control character
RECURSIVE scan_string(_, _)
scan_string(s, j) ==
    IF j > Len(s) THEN 0
    ELSE IF s[j] = Q THEN j
    ELSE IF s[j] \in {"\n", "\t"} THEN 0 - 1
    ELSE scan_string(s, j + 1)

parse_string(s, i) ==
    LET j == scan_string(s, i + 1)
    IN  IF j = 0 THEN Fail(i, "Unterminated string starting at")
        ELSE IF j < 0 THEN Fail(i, "Invalid control character at")
        ELSE Ok(PyStr(SubSeq(s, i + 1, j - 1)), j + 1)

\* the index after the run of digits that starts at i
RECURSIVE scan_digits(_, _)
scan_digits(s, i) ==
    IF i <= Len(s) /\ IsDigit(s[i]) THEN scan_digits(s, i + 1) ELSE i

RECURSIVE digits_value(_, _, _)
digits_value(s, a, b) ==
    IF a > b THEN 0 ELSE digits_value(s, a, b - 1) * 10 + DigitVal(s[b])

\* -?(0|[1-9][0-9]*)(\.[0-9]+)?
parse_number(s, i) ==
    LET neg == s[i] = "-"
        a == IF neg THEN i + 1 ELSE i
        b == IF a <= Len(s) /\ s[a] = "0" THEN a + 1 ELSE scan_digits(s, a)
        whole == digits_value(s, a, b - 1)
        signed == IF neg THEN 0 - whole ELSE whole
        c == IF b <= Len(s) /\ s[b] = "." THEN scan_digits(s, b + 1) ELSE b
    IN  IF b = a THEN Fail(i, "Expecting value")
        ELSE IF c > b + 1 THEN Ok(PyFloat(signed, SubSeq(s, b + 1, c - 1)), c)
        ELSE Ok(PyInt(signed), b)

RECURSIVE parse_value(_, _)
RECURSIVE parse_members(_, _, _)
RECURSIVE parse_elements(_, _, _)

\* after "{" or ",": "key" : value, then "," or "}"; a repeated key keeps the last
parse_members(s, i0, acc) ==
    LET i == skip_ws(s, i0)
    IN  IF i > Len(s) \/ s[i] # Q
        THEN Fail(i, "Expecting property name enclosed in double quotes")
        ELSE
        LET k == parse_string(s, i)
        IN  IF ~k.ok THEN k ELSE
        LET i2 == skip_ws(s, k.pos)
        IN  IF i2 > Len(s) \/ s[i2] # ":" THEN Fail(i2, "Expecting ':' delimiter") ELSE
        LET v == parse_value(s, i2 + 1)
        IN  IF ~v.ok THEN v ELSE
        LET acc2 == (k.val.v :> v.val) @@ acc
            i3 == skip_ws(s, v.pos)
        IN  IF i3 > Len(s) THEN Fail(i3, "Expecting ',' delimiter")
            ELSE IF s[i3] = "}" THEN Ok(PyDict(acc2), i3 + 1)
            ELSE IF s[i3] = "," THEN parse_members(s, i3 + 1, acc2)
            ELSE Fail(i3, "Expecting ',' delimiter")

\* after "[" or ",": value, then "," or "]"
parse_elements(s, i0, acc) ==
    LET v == parse_value(s, i0)
    IN  IF ~v.ok THEN v ELSE
        LET acc2 == Append(acc, v.val)
            i3 == skip_ws(s, v.pos)
        IN  IF i3 > Len(s) THEN Fail(i3, "Expecting ',' delimiter")
            ELSE IF s[i3] = "]" THEN Ok(PyList(acc2), i3 + 1)
            ELSE IF s[i3] = "," THEN parse_elements(s, i3 + 1, acc2)
            ELSE Fail(i3, "Expecting ',' delimiter")

parse_value(s, i0) ==
    LET i == skip_ws(s, i0)
    IN  IF i > Len(s) THEN Fail(i, "Expecting value")
        ELSE IF s[i] = "{"
        THEN LET j == skip_ws(s, i + 1)
             IN  IF j <= Len(s) /\ s[j] = "}" THEN Ok(EmptyDict, j + 1)
                 ELSE parse_members(s, i + 1, <<>>)
        ELSE IF s[i] = "["
        THEN LET j == skip_ws(s, i + 1)
             IN  IF j <= Len(s) /\ s[j] = "]" THEN Ok(PyList(<<>>), j + 1)
                 ELSE parse_elements(s, i + 1, <<>>)
        ELSE IF s[i] = Q THEN parse_string(s, i)
        ELSE IF s[i] = "-" \/ IsDigit(s[i]) THEN parse_number(s, i)
        ELSE IF s[i] = "null" THEN Ok(None, i + 1)
        ELSE Fail(i, "Expecting value")

\* json.loads(text): one value, then nothing but whitespace
json_loads(text) ==
    LET r == parse_value(text, 1)
    IN  IF ~r.ok THEN r
        ELSE IF skip_ws(text, r.pos) <= Len(text) THEN Fail(r.pos, "Extra data")
        ELSE r

--------------------------------------------------------------------------
(* What the model may answer: the JSON text the prompt asks for (lines 198-254),
   well-formed or not, fenced or not *)

lit(s) == <<Q>> \o s \o <<Q>>
field(k, v) == lit(<<k>>) \o <<":", " ">> \o v
object(fields) == <<"{">> \o joinTexts(fields, <<",", " ">>) \o <<"}">>
array(items) == <<"[">> \o joinTexts(items, <<",", " ">>) \o <<"]">>

\* an object of the fields <<key, value text>> whose path is not omitted
object_of(prefix, fields, omit) ==
    LET kept == SelectSeq(fields, LAMBDA f : Append(prefix, f[1]) \notin omit)
    IN  object([i \in 1..Len(kept) |-> field(kept[i][1], kept[i][2])])

SectionKeys == <<"section_1_branding", "section_2_sales", "section_3_conversion",
                 "section_4_audience", "section_5_seo", "section_6_strategy">>

section_text(k, omit) ==
    object_of(<<SectionKeys[k]>>,
              << <<"title", lit(<<Digits[k + 1], ".", " ", "Heading">>)>>,
                 <<"content", lit(<<"Analysis">>)>> >>
              \o (IF k = 5
                  THEN << <<"technical_notes", lit(<<"H1:", " ", "1">>)>>,
                          <<"ai_readiness", lit(<<"Partly">>)>> >>
                  ELSE <<>>)
              \o << <<"improvements", array(<<lit(<<"Point", " ", "1">>)>>)>> >>,
              omit)

stack_item_text(tool, omit) ==
    object_of(<<"recommended_stack">>,
              << <<"category", lit(<<"Email", " ", "Marketing">>)>>,
                 <<"tool", tool>>,
                 <<"service", lit(<<"Setup">>)>> >>,
              omit)

\* o.summary: the summary's text; o.score: the JSON text of the score;
\* o.tools: the JSON text of each stack item's tool; o.omit: the paths left out
report_text(o) ==
    object_of(<<>>,
        << <<"executive_summary", lit(o.summary)>>,
           <<"score_breakdown",
             object_of(<<"score_breakdown">>,
                       << <<"score", o.score>>,
                          <<"reason", lit(<<"Clear", " ", "offer">>)>> >>,
                       o.omit)>> >>
        \o [k \in 1..6 |-> <<SectionKeys[k], section_text(k, o.omit)>>]
        \o << <<"recommended_stack",
                array([i \in 1..Len(o.tools) |-> stack_item_text(o.tools[i], o.omit)])>> >>,
        o.omit)

\* the token for the grave accent character (U+0060)
Backtick == "<backtick>"
Fence == <<Backtick, Backtick, Backtick>>
FenceJson == Fence \o <<"j", "s", "o", "n">>

PlugInSeo == <<"P", "l", "u", "g", " ", "I", "n", " ", "S", "E", "O">>
Klaviyo == <<"K", "l", "a", "v", "i", "y", "o">>
JudgeMe == <<"J", "u", "d", "g", "e", ".", "m", "e">>
Loox == <<"L", "o", "o", "x">>
Privy == <<"P", "r", "i", "v", "y">>
ReConvert == <<"R", "e", "C", "o", "n", "v", "e", "r", "t">>

BaseReport ==
    [ summary |-> <<"Strong", " ", "brand">>,
      score |-> <<"7">>,
      tools |-> <<lit(PlugInSeo), lit(Klaviyo)>>,
      omit |-> {} ]

\* the keys the preview and the document read
ReportPaths ==
    { <<"executive_summary">>, <<"score_breakdown">>, <<"score_breakdown", "score">>,
      <<"recommended_stack">> }
    \cup { <<SectionKeys[k]>> : k \in 1..6 }
    \cup { <<SectionKeys[k], f>> :
             k \in {1, 5, 6}, f \in {"title", "content", "improvements"} }
    \cup { <<"section_5_seo", f>> : f \in {"technical_notes", "ai_readiness"} }
    \cup { <<"recommended_stack", f>> : f \in {"category", "tool", "service"} }

Reports ==
    {BaseReport}
    \cup { [BaseReport EXCEPT !.summary = x] :
             x \in { <<"Wrap", " ", "it", " ", "in", " ">> \o Fence,
                     <<"Use", " ">> \o FenceJson \o <<" ", "blocks">> } }
    \cup { [BaseReport EXCEPT !.score = x] :
             x \in { <<"1">>, <<"1", "0">>, <<"0">>, <<"1", "1">>, <<"-", "3">>,
                     <<"7", ".", "5">>, lit(<<"7">>), <<"null">> } }
    \cup { [BaseReport EXCEPT !.tools = x] :
             x \in { <<>>,
                     <<lit(Klaviyo \o <<" ", "E", "m", "a", "i", "l">>)>>,
                     <<lit(lower(JudgeMe)), lit(<<"H", "o", "t", " ", "J", "a", "r", " ", "2">>)>>,
                     <<lit(Privy \o <<" ", "+", " ">> \o Loox)>>,
                     <<<<"5">>>> } }
    \cup { [BaseReport EXCEPT !.omit = {x}] : x \in ReportPaths }

\* as the model was told to answer, or inside a fenced block
wrap(style, t) ==
    CASE style = "plain" -> t
      [] style = "json fence" -> FenceJson \o <<"\n">> \o t \o <<"\n">> \o Fence
      [] style = "bare fence" -> <<" ">> \o Fence \o <<"\n">> \o t \o <<"\n">> \o Fence \o <<"\n">>

\* payload: the JSON the model wrote; text: response.text
ModelTexts ==
    { [kind |-> "text", payload |-> report_text(o), text |-> wrap(w, report_text(o))] :
        o \in Reports, w \in {"plain", "json fence"} }
    \cup { [kind |-> "text", payload |-> report_text(BaseReport),
            text |-> wrap("bare fence", report_text(BaseReport))] }
    \cup { [kind |-> "text", payload |-> t, text |-> t] :
             t \in { <<>>,
                     <<"I", " ", "cannot", " ", "help">>,
                     <<"{">> \o field("executive_summary", lit(<<"cut">>)),
                     <<"[", "]">>,
                     <<"7">>,
                     object(<<field("error", lit(<<"blocked">>))>>) } }

\* model.generate_content or response.text raising
ModelFailures ==
    { [kind |-> "exception", message |-> <<m>>] :
        m \in {"429 Resource has been exhausted", "400 API key not valid"} }

ModelResponses == ModelTexts \cup ModelFailures

--------------------------------------------------------------------------
(* analyze_store_json *)

\* lines 19-26, in the order the dict holds them
APP_LINKS ==
    << [key |-> PlugInSeo, url |-> <<"https://pluginseo.com?ref=YOUR_REF_ID">>],
       [key |-> Klaviyo, url |-> <<"https://klaviyo.com/partner/YOUR_REF_ID">>],
       [key |-> JudgeMe, url |-> <<"https://judge.me/ref/YOUR_REF_ID">>],
       [key |-> Loox, url |-> <<"https://loox.io/app/YOUR_REF_ID">>],
       [key |-> Privy, url |-> <<"https://privy.com/ref/YOUR_REF_ID">>],
       [key |-> ReConvert, url |-> <<"https://reconvert.io/?ref=YOUR_REF_ID">>] >>

Return(v) == [ok |-> TRUE, val |-> v, msg |-> <<>>]
Raise(m) == [ok |-> FALSE, val |-> None, msg |-> <<m>>]

\* lines 174-184: the fields of the snapshot the prompt interpolates
build_prompt(d) ==
    [ url |-> d.url,
      title |-> format(d.title),
      description |-> format(d.description),
      h1_tags |-> d.h1_tags,
      h2_tags |-> d.h2_tags,
      image_stats |-> d.image_stats,
      body |-> slice_len(d.body, PromptBodyCap) ]

\* line 258: response.text.strip().replace('```json', '').replace('```', '')
fence_strip(text) == replace(replace(strip(text), FenceJson, <<>>), Fence, <<>>)

\* key in v
py_in(key, v) ==
    CASE v.t = "dict" -> Return(key \in DOMAIN v.v)
      [] v.t = "list" -> Return(\E i \in 1..Len(v.v) : v.v[i] = PyStr(key))
      [] v.t = "str" -> Return(contains(v.v, key))
      [] OTHER -> Raise("argument of type '" \o v.t \o "' is not iterable")

\* line 267
default_link(app_name) ==
    <<"https://apps.shopify.com/search?q=">> \o replace(app_name, <<" ">>, <<"%20">>)

\* lines 271-275: the first key of the table, from k on, that the name contains
RECURSIVE link_from(_, _)
link_from(app_name, k) ==
    IF k > Len(APP_LINKS) THEN default_link(app_name)
    ELSE IF contains(lower(app_name), lower(APP_LINKS[k].key)) THEN APP_LINKS[k].url
    ELSE link_from(app_name, k + 1)

\* affiliate_link as an exact lookup of the name in the table
affiliate_link_exact(app_name) ==
    LET hits == { k \in 1..Len(APP_LINKS) : APP_LINKS[k].key = app_name }
    IN  IF hits = {} THEN default_link(app_name)
        ELSE APP_LINKS[CHOOSE k \in hits : TRUE].url

affiliate_link(app_name) == link_from(app_name, 1)

\* lines 265-275 for one item of the stack
link_item(item) ==
    IF item.t # "dict" THEN Raise("'" \o item.t \o "' object has no attribute 'get'")
    ELSE LET app_name == IF <<"tool">> \in DOMAIN item.v THEN item.v[<<"tool">>]
                         ELSE PyStr(<<>>)
         IN  IF app_name.t # "str"
             THEN Raise("'" \o app_name.t \o "' object has no attribute 'replace'")
             ELSE Return(PyDict((<<"link">> :> PyStr(affiliate_link(app_name.v)))
                                @@ item.v))

RECURSIVE link_items(_, _, _)
link_items(items, k, acc) ==
    IF k > Len(items) THEN Return(PyList(acc))
    ELSE LET r == link_item(items[k])
         IN  IF ~r.ok THEN r ELSE link_items(items, k + 1, Append(acc, r.val))

\* lines 263-277
inject_links(audit_data) ==
    LET has == py_in(<<"recommended_stack">>, audit_data)
    IN  IF ~has.ok THEN has
        ELSE IF ~has.val THEN Return(audit_data)
        ELSE IF audit_data.t # "dict" THEN Raise("indices must be integers")
        ELSE LET stack == audit_data.v[<<"recommended_stack">>]
             IN  IF stack.t = "list"
                 THEN LET r == link_items(stack.v, 1, <<>>)
                      IN  IF ~r.ok THEN r
                          ELSE Return(PyDict((<<"recommended_stack">> :> r.val)
                                             @@ audit_data.v))
                 ELSE IF stack.t \in {"str", "dict"}
                 THEN IF stack.v = <<>> THEN Return(audit_data)
                      ELSE Raise("'str' object has no attribute 'get'")
                 ELSE Raise("'" \o stack.t \o "' object is not iterable")

\* line 279
error_dict(msg) == PyDict(<<"error">> :> PyStr(msg))

\* lines 256-279: what analyze_store_json returns, given what the model did
analyze_store_json(resp) ==
    IF resp.kind = "exception" THEN error_dict(resp.message)
    ELSE LET parsed == json_loads(fence_strip(resp.text))
         IN  IF ~parsed.ok THEN error_dict(parsed.msg)
             ELSE LET r == inject_links(parsed.val)
                  IN  IF r.ok THEN r.val ELSE error_dict(r.msg)

--------------------------------------------------------------------------
(* The report preview and create_word_doc *)

\* v[k1][k2]...: a subscript raises on a missing key and on a value that is no dict
RECURSIVE lookup(_, _)
lookup(v, path) ==
    IF path = <<>> THEN Return(v)
    ELSE IF v.t # "dict" THEN Raise("TypeError")
    ELSE IF <<Head(path)>> \notin DOMAIN v.v THEN Raise("KeyError: " \o Head(path))
    ELSE lookup(v.v[<<Head(path)>>], Tail(path))

section_reads(k, fields) == [i \in 1..Len(fields) |-> <<SectionKeys[k], fields[i]>>]

\* lines 391-440: the subscripts of the preview above the stack, in order
PreviewReads ==
    << <<"executive_summary">>, <<"score_breakdown", "score">> >>
    \o section_reads(1, <<"title", "content", "improvements">>)
    \o section_reads(2, <<"title", "content", "improvements">>)
    \o section_reads(3, <<"title", "content", "improvements">>)
    \o section_reads(4, <<"title", "content", "improvements">>)
    \o section_reads(5, <<"title", "content", "ai_readiness", "technical_notes",
                          "improvements">>)
    \o section_reads(6, <<"title", "content">>)
    \o << <<"recommended_stack">> >>

\* lines 297-313: the subscripts of the document before its section loop
DocHeadReads ==
    << <<"executive_summary">>, <<"score_breakdown", "score">> >>
    \o [k \in 1..6 |-> <<SectionKeys[k]>>]

\* lines 317-328: one turn of the section loop
doc_section_reads(report, k) ==
    LET sec == lookup(report, <<SectionKeys[k]>>).val
    IN  section_reads(k, <<"title", "content">>)
        \o (IF sec.t = "dict" /\ <<"technical_notes">> \in DOMAIN sec.v
            THEN section_reads(k, <<"technical_notes", "ai_readiness">>)
            ELSE <<>>)
        \o section_reads(k, <<"improvements">>)

\* lines 444-457 and 339-343: category, tool and service of each item
stack_reads(report) ==
    LET stack == lookup(report, <<"recommended_stack">>)
        n == IF stack.ok /\ stack.val.t = "list" THEN Len(stack.val.v) ELSE 0
    IN  [j \in 1..(3 * n) |->
            <<"recommended_stack", (j + 2) \div 3,
              <<"category", "tool", "service">>[((j - 1) % 3) + 1]>>]

\* a read of the audit: a path of keys, or <<"recommended_stack", i, key>>
read(report, r) ==
    IF Len(r) = 3 /\ r[1] = "recommended_stack"
    THEN lookup(lookup(report, <<"recommended_stack">>).val.v[r[2]], <<r[3]>>)
    ELSE lookup(report, r)

\* the first read of the list that raises, or 0
first_failure(report, reads) ==
    LET bad == { i \in 1..Len(reads) : ~read(report, reads[i]).ok }
    IN  IF bad = {} THEN 0 ELSE CHOOSE i \in bad : \A j \in bad : i <= j

\* what st.write / st.markdown / st.metric shows for a read
block(report, r) ==
    LET v == read(report, r).val
    IN  IF r = <<"score_breakdown", "score">>
        THEN [kind |-> "metric", of |-> r, text |-> format(v) \o <<"/10">>]
        ELSE [kind |-> "report", of |-> r, text |-> format(v)]

\* Streamlit's box for an exception the script did not catch
exception_block(msg) == [kind |-> "exception", of |-> <<>>, text |-> msg]

\* lines 387-464: the blocks the preview adds to the page, and whether it raised
render_preview(report) ==
    LET reads == PreviewReads \o stack_reads(report)
        n == first_failure(report, reads)
        shown == IF n = 0 THEN Len(reads) ELSE n - 1
    IN  [ blocks |->
            << [kind |-> "success", of |-> <<>>, text |-> <<"Analysis Complete.">>] >>
            \o [i \in 1..shown |-> block(report, reads[i])]
            \o (IF n = 0 THEN <<>> ELSE <<exception_block(read(report, reads[n]).msg)>>),
          raised |-> n # 0 ]

\* lines 282-361: the paragraphs of the document, or the exception it raises
create_word_doc(report, url) ==
    LET head == first_failure(report, DocHeadReads)
        reads == DocHeadReads
                 \o (IF head # 0 THEN <<>>
                     ELSE doc_section_reads(report, 1) \o doc_section_reads(report, 2)
                          \o doc_section_reads(report, 3) \o doc_section_reads(report, 4)
                          \o doc_section_reads(report, 5) \o doc_section_reads(report, 6)
                          \o stack_reads(report))
        n == first_failure(report, reads)
    IN  IF n # 0 THEN Raise(read(report, reads[n]).msg[1])
        ELSE Return([ t |-> "docx",
                      url |-> url,
                      score |-> format(read(report, <<"score_breakdown", "score">>).val)
                                \o <<"/10">>,
                      paragraphs |-> [i \in 1..Len(reads) |-> format(read(report, reads[i]).val)] ])

--------------------------------------------------------------------------
(* The button handler, lines 371-475 *)

\* no call made yet
Nothing == [kind |-> "none"]

ui_block(kind, text) == [kind |-> kind, of |-> <<>>, text |-> text]

\* bool(v) of None or a str
truthy(v) == v.t = "str" /\ v.v # <<>>

\* requests sends only to a URL that names the http or https scheme
sendable(u) == startswith(u, SchemeHttp) \/ startswith(u, SchemeHttps)

\* after_scrape without the "if error" branch: the run always goes on
after_scrape_unchecked(err) ==
    [pc |-> "model", outcome |-> "none", blocks |-> <<>>]

\* lines 378-380: after scrape_shopify_store
after_scrape(err) ==
    IF truthy(err)
    THEN [pc |-> "done", outcome |-> "fetch_error", blocks |-> <<ui_block("error", err.v)>>]
    ELSE [pc |-> "model", outcome |-> "none", blocks |-> <<>>]

\* lines 383-385: after analyze_store_json
after_analysis(result) ==
    IF py_in(<<"error">>, result).val
    THEN [pc |-> "done", outcome |-> "analysis_error",
          blocks |-> <<ui_block("error", <<"Analysis failed. Please try again.">>)>>]
    ELSE [pc |-> "preview", outcome |-> "none", blocks |-> <<>>]

Init ==
    /\ pc = "idle"
    /\ url_input = <<>>
    /\ requested = <<>>
    /\ response = Nothing
    /\ data = None
    /\ error = None
    /\ soupBuilt = FALSE
    /\ prompts = <<>>
    /\ raw = Nothing
    /\ clean_json = None
    /\ audit = None
    /\ display = <<>>
    /\ doc = None
    /\ log = <<>>
    /\ outcome = "none"

\* lines 371-375: a click starts a run of the script on a fresh page
Generate(u) ==
    /\ pc \in {"idle", "done"}
    /\ url_input' = u
    /\ requested' = <<>>
    /\ response' = Nothing
    /\ data' = None
    /\ error' = None
    /\ soupBuilt' = FALSE
    /\ prompts' = <<>>
    /\ raw' = Nothing
    /\ clean_json' = None
    /\ audit' = None
    /\ doc' = None
    /\ log' = <<>>
    /\ IF u = <<>>
       THEN /\ display' = <<ui_block("warning", <<"Please enter a URL.">>)>>
            /\ pc' = "done"
            /\ outcome' = "warned"
       ELSE /\ display' = <<>>
            /\ pc' = "get"
            /\ outcome' = "none"

\* lines 132-136: the GET goes out
Get ==
    /\ pc = "get"
    /\ requested' = Append(requested, request_url(url_input))
    /\ log' = Append(log, "get")
    /\ pc' = "response"
    /\ UNCHANGED <<url_input, response, data, error, soupBuilt, prompts, raw,
                   clean_json, audit, display, doc, outcome>>

\* lines 136-168 and 378-380: requests.get returns or raises, the page is read
Scraped(resp) ==
    /\ pc = "response"
    /\ sendable(requested[Len(requested)]) \/ resp = MissingSchema
    /\ response' = resp
    /\ LET r == scrape_shopify_store(url_input, resp)
           ui == after_scrape(r.error)
       IN  /\ data' = r.data
           /\ error' = r.error
           /\ soupBuilt' = r.parsed
           /\ log' = IF r.parsed THEN Append(log, "extract") ELSE log
           /\ display' = display \o ui.blocks
           /\ pc' = ui.pc
           /\ outcome' = ui.outcome
    /\ UNCHANGED <<url_input, requested, prompts, raw, clean_json, audit, doc>>

\* lines 172-257: the prompt goes to the model
Ask ==
    /\ pc = "model"
    /\ prompts' = Append(prompts, build_prompt(data))
    /\ log' = Append(log, "model")
    /\ pc' = "answer"
    /\ UNCHANGED <<url_input, requested, response, data, error, soupBuilt, raw,
                   clean_json, audit, display, doc, outcome>>

\* analyze_store_json on each answer the model may give: the answer does not
\* depend on the state, so it is computed once
Analysis ==
    [ resp \in ModelResponses |->
        [ clean_json |-> IF resp.kind = "text" THEN PyStr(fence_strip(resp.text))
                         ELSE None,
          audit |-> analyze_store_json(resp) ] ]

\* lines 257-279 and 383-385: the model answers or fails
Analyzed(resp) ==
    /\ pc = "answer"
    /\ raw' = resp
    /\ clean_json' = Analysis[resp].clean_json
    /\ LET result == Analysis[resp].audit
           ui == after_analysis(result)
       IN  /\ audit' = result
           /\ display' = display \o ui.blocks
           /\ pc' = ui.pc
           /\ outcome' = ui.outcome
    /\ UNCHANGED <<url_input, requested, response, data, error, soupBuilt, prompts,
                   doc, log>>

\* lines 387-464: the preview; an exception it raises ends the script
Preview ==
    /\ pc = "preview"
    /\ LET r == render_preview(audit)
       IN  /\ display' = display \o r.blocks
           /\ pc' = IF r.raised THEN "done" ELSE "export"
           /\ outcome' = IF r.raised THEN "crashed" ELSE outcome
    /\ log' = Append(log, "render")
    /\ UNCHANGED <<url_input, requested, response, data, error, soupBuilt, prompts,
                   raw, clean_json, audit, doc>>

\* lines 467-475: the document and its download button
Export ==
    /\ pc = "export"
    /\ LET r == create_word_doc(audit, url_input)
       IN  IF r.ok
           THEN /\ doc' = r.val
                /\ display' = Append(display, ui_block("download", <<"Download PDF Report (.docx)">>))
                /\ outcome' = "complete"
           ELSE /\ doc' = None
                /\ display' = Append(display, exception_block(r.msg))
                /\ outcome' = "crashed"
    /\ log' = Append(log, "export")
    /\ pc' = "done"
    /\ UNCHANGED <<url_input, requested, response, data, error, soupBuilt, prompts,
                   raw, clean_json, audit>>

Next ==
    \/ \E u \in UrlInputs : Generate(u)
    \/ Get
    \/ \E resp \in Responses \cup {MissingSchema} : Scraped(resp)
    \/ Ask
    \/ \E resp \in ModelResponses : Analyzed(resp)
    \/ Preview
    \/ Export

Spec == Init /\ [][Next]_vars

--------------------------------------------------------------------------
(* Claims *)

StageOrder == <<"get", "extract", "model", "render", "export">>

IsPrefix(a, b) == Len(a) <= Len(b) /\ SubSeq(b, 1, Len(a)) = a

blocks_of(kind) == { i \in 1..Len(display) : display[i].kind = kind }

\* C1: in one run the stages go fetch, extract, model request, render, export,
\* each at most once and none again after a later one; at most one GET and one
\* model request go out; the model request goes out only after a snapshot came
\* back with no error; a failed fetch ends the run with the error shown and with
\* no model request, no report block and no document.
C1_StagesInOrder ==
    /\ IsPrefix(log, StageOrder)
    /\ Len(requested) <= 1
    /\ Len(prompts) <= 1
    /\ (pc \in {"model", "answer", "preview", "export"} \/ prompts # <<>>)
          => (data.t = "dict" /\ error.t = "None")
    /\ truthy(error)
          => /\ pc = "done"
             /\ outcome = "fetch_error"
             /\ prompts = <<>>
             /\ audit.t = "None"
             /\ doc.t = "None"
             /\ log \in {<<"get">>, <<"get", "extract">>}
             /\ display = <<ui_block("error", error.v)>>

\* a run in which the store answered 404
C1_Witness ==
    /\ outcome = "fetch_error"
    /\ response.kind = "response"
    /\ response.status_code = 404
    /\ Len(requested) = 1
    /\ prompts = <<>>

\* C2: a URL typed without a scheme is requested as https:// + the trimmed
\* input, also when the host's name begins with "http"; a URL typed with http://
\* or https:// is requested as typed (trimmed).
C2_HttpsWhenNoScheme ==
    requested # <<>>
       => requested[1] = IF HasScheme(url_input) THEN strip(url_input)
                         ELSE SchemeHttps \o strip(url_input)

\* C3: a response whose status is not 200 gives no snapshot and an error that
\* carries the status code, and its body is never parsed.
C3_Non200IsError ==
    (response.kind = "response" /\ response.status_code # StatusOk)
       => /\ data.t = "None"
          /\ error.t = "str"
          /\ contains(error.v, intToText(response.status_code))
          /\ ~soupBuilt
          /\ log = <<"get">>

\* a run in which the store answered 500
C3_Witness ==
    /\ response.kind = "response"
    /\ response.status_code = 500
    /\ error.t = "str"


\* the model answered and analyze_store_json returned no {"error": ...}
analysis_succeeded ==
    /\ raw.kind = "text"
    /\ audit.t # "None"
    /\ ~py_in(<<"error">>, audit).val

\* the items of the audit's recommended_stack
stack_of(a) ==
    LET st == lookup(a, <<"recommended_stack">>)
    IN  IF st.ok /\ st.val.t = "list" THEN st.val.v ELSE <<>>

\* the keys the schema requires: the summary, the score, the six sections with
\* their title, content and improvements, the stack and each item's fields
RequiredPaths ==
    { <<"executive_summary">>, <<"score_breakdown", "score">>, <<"recommended_stack">> }
    \cup { <<SectionKeys[k]>> : k \in 1..6 }
    \cup { <<SectionKeys[k], f>> : k \in 1..6, f \in {"title", "content", "improvements"} }

lacks_required_key(a) ==
    \/ \E path \in RequiredPaths : ~lookup(a, path).ok
    \/ \E i \in 1..Len(stack_of(a)) :
          \E f \in {"category", "tool", "service"} : ~lookup(stack_of(a)[i], <<f>>).ok

\* C4: a parsed answer that lacks a required key ends the run in a displayed
\* failure message: no exception escapes the preview or create_word_doc, and
\* neither the success notice nor any part of the report is shown.
C4_MissingKeyFailsClosed ==
    (pc = "done" /\ analysis_succeeded /\ audit.t = "dict" /\ lacks_required_key(audit))
       => /\ outcome # "crashed"
          /\ blocks_of("error") # {}
          /\ blocks_of("success") = {}
          /\ blocks_of("report") = {}
          /\ blocks_of("exception") = {}
          /\ doc.t = "None"

\* C5: for a well-formed payload, stripping and parsing the fenced text gives
\* the value that parsing the payload gives, also when a string of the payload
\* holds fence characters, and stripping twice gives what stripping once gives.
C5_FenceRoundTrip ==
    (raw.kind = "text" /\ raw.text # raw.payload /\ json_loads(raw.payload).ok)
       => /\ json_loads(clean_json.v).ok
          /\ json_loads(clean_json.v).val = json_loads(raw.payload).val
          /\ json_loads(fence_strip(clean_json.v)).val = json_loads(clean_json.v).val

\* the tool name of a stack item, '' when it has none
tool_of(item) ==
    IF lookup(item, <<"tool">>).ok THEN lookup(item, <<"tool">>).val.v ELSE <<>>

\* the link the claim describes for a tool name
described_link(name) ==
    LET low == lower(name)
        hits == { k \in 1..Len(APP_LINKS) :
                    \E i \in 1..(Len(low) + 1) :
                        occursAt(low, i, lower(APP_LINKS[k].key)) }
    IN  IF hits # {}
        THEN APP_LINKS[CHOOSE k \in hits : \A j \in hits : k <= j].url
        ELSE <<"https://apps.shopify.com/search?q=">>
             \o [i \in 1..Len(name) |-> IF name[i] = " " THEN "%20" ELSE name[i]]

\* C6: after a successful analyze_store_json every item of recommended_stack has
\* a link: the URL of the first key of APP_LINKS, in table order, that the tool
\* name contains without regard to case, else the App Store search URL followed
\* by the tool name with each space written %20.
C6_EveryItemLinked ==
    analysis_succeeded
       => LET items == stack_of(audit)
          IN  \A i \in 1..Len(items) :
                 /\ lookup(items[i], <<"link">>).ok
                 /\ lookup(items[i], <<"link">>).val
                       = PyStr(described_link(tool_of(items[i])))

\* an audit with a lower-case "judge.me" linked to the table's URL and an unknown
\* "Hot Jar 2" linked to the search URL
C6_Witness ==
    /\ analysis_succeeded
    /\ Len(stack_of(audit)) = 2
    /\ tool_of(stack_of(audit)[1]) = lower(JudgeMe)
    /\ lookup(stack_of(audit)[1], <<"link">>).val = PyStr(APP_LINKS[3].url)
    /\ lookup(stack_of(audit)[2], <<"link">>).val
          = PyStr(<<"https://apps.shopify.com/search?q=",
                    "H", "o", "t", "%20", "J", "a", "r", "%20", "2">>)

\* C7: a body that came with status 200 always gives a snapshot and no error;
\* title and description are strings, the fallback literal when the <title>
\* element, the description meta tag or its content is absent or empty.
C7_ExtractionNeverFails ==
    (response.kind = "response" /\ response.status_code = StatusOk)
       => /\ error.t = "None"
          /\ data.t = "dict"
          /\ data.title.t = "str"
          /\ data.description.t = "str"
          /\ (response.soup.title.t = "None" \/ response.soup.title.string.t = "None")
                => data.title = PyStr(<<"No Title">>)
          /\ (\/ response.soup.meta.t = "None"
              \/ "content" \notin DOMAIN response.soup.meta.attrs
              \/ response.soup.meta.attrs.content = <<>>)
                => data.description = PyStr(<<"No Meta Description">>)

\* C8: when the model request raises or its text does not parse, the message
\* shown holds the raw error text and, for a parse failure, the raw text.
C8_RawErrorShown ==
    outcome = "analysis_error"
       => \E i \in blocks_of("error") :
             /\ contains(display[i].text, audit.v[<<"error">>].v)
             /\ (raw.kind = "text" /\ ~json_loads(clean_json.v).ok)
                   => contains(display[i].text, raw.text)

\* C9: in a run that reaches the preview or create_word_doc the score is an
\* integer from 1 to 10.
C9_ScoreInRange ==
    (pc \in {"preview", "export"} \/ blocks_of("metric") # {} \/ doc.t = "docx")
       => LET score == lookup(audit, <<"score_breakdown", "score">>)
          IN  score.ok => (score.val.t = "int" /\ score.val.v \in 1..10)

\* C10: the snapshot's body has at most 5000 characters and the body written
\* into the prompt at most 3500, however long the page's visible text is.
C10_BodyCapped ==
    /\ data.t = "dict" => data.body <= BodyCap
    /\ \A i \in 1..Len(prompts) : prompts[i].body <= PromptBodyCap

\* a page whose visible text is longer than both caps, cut to each
C10_Witness ==
    /\ response.kind = "response"
    /\ response.status_code = StatusOk
    /\ response.soup.text_len > BodyCap
    /\ data.t = "dict"
    /\ data.body = BodyCap
    /\ prompts # <<>>
    /\ prompts[1].body = PromptBodyCap


\* the texts of a page's heading elements, in document order
page_headings(hs) == [i \in 1..Len(hs) |-> strip(hs[i])]

\* sent is the first Min(Len(all), cap) elements of all
is_capped_prefix(sent, all, cap) ==
    /\ Len(sent) = Min(Len(all), cap)
    /\ sent = SubSeq(all, 1, Len(sent))

\* C11: h1_tags and h2_tags, in the snapshot and in the prompt, are each the
\* page's headings of that level in document order cut to a fixed maximum
\* length (the code's heading cap, 6), however many headings the page has.
C11_HeadingsCapped ==
    (response.kind = "response" /\ data.t = "dict")
       => /\ is_capped_prefix(data.h1_tags, page_headings(response.soup.h1), H2Cap)
          /\ is_capped_prefix(data.h2_tags, page_headings(response.soup.h2), H2Cap)
          /\ \A i \in 1..Len(prompts) :
                /\ prompts[i].h1_tags = data.h1_tags
                /\ prompts[i].h2_tags = data.h2_tags

====
